---- MODULE Spec2Model ----
(***************************************************************************)
(* libgeojson (include/libgeojson/libgeojson.h): the coordinate / ring     *)
(* assembly and winding-order normalisation of GeoJSON geometries.         *)
(*                                                                         *)
(* A caller invokes one build entry point with counts and index accessors; *)
(* the entry point pulls the points through the accessors, assembles the   *)
(* nlohmann::json value and returns it, or throws.  Doubles are modelled   *)
(* by integers on a bounded grid.                                          *)
(***************************************************************************)
EXTENDS Integers, Sequences, FiniteSets, TLC

VARIABLES pc, op, arg, ret, calls

vars == <<pc, op, arg, ret, calls>>

(***************************************************************************)
(* Bounds of the model.                                                    *)
(***************************************************************************)
MaxCoord == 1
MaxAlt == 1
MaxLen == 4
MaxLines == 2
MaxRings == 2
MaxPolys == 2
MaxGeoms == 2
MaxFeatures == 2
MaxTypeValue == 9

Coord == 0..MaxCoord
Alt == 0..MaxAlt
Dims == {2, 3}

(***************************************************************************)
(* nlohmann::json values.  A number or a string is the TLA+ value itself;  *)
(* null, an array and an object carry their kind, so that null and the     *)
(* empty array are different values, as they are in the library.           *)
(***************************************************************************)
JNull == [kind |-> "null", items |-> <<>>]

JArray(s) == [kind |-> "array", items |-> s]

JObject(members) == [kind |-> "object", items |-> members]

IsNull(j) == j.kind = "null"

IsArray(j) == j.kind = "array"

\* json::size(): 0 for null, the number of elements of an array
Size(j) == IF j.kind = "array" THEN Len(j.items) ELSE 0

\* json::operator[](size_t), zero-based
At(j, i) == j.items[i + 1]

\* json::push_back: null becomes an array first
PushBack(j, v) == JArray(Append(j.items, v))

\* std::swap(coords[a], coords[b])
SwapAt(j, a, b) == JArray([j.items EXCEPT ![a + 1] = j.items[b + 1], ![b + 1] = j.items[a + 1]])

(***************************************************************************)
(* Outcome of a call: the value returned, or the exception thrown, and the *)
(* accessor invocations made so far, in order.                             *)
(***************************************************************************)
kLineStringWhat == "LineString objects must have at least 2 points"

kLinearRingWhat == "Linear rings must have at least 3 points"

Returned(v, log) == [exc |-> "none", what |-> "", val |-> v, log |-> log]

Thrown(e, w, log) == [exc |-> e, what |-> w, val |-> JNull, log |-> log]

Invoked(f, idx) == [f |-> f, idx |-> idx]

(***************************************************************************)
(* Position and PointCoordinates: a 2- or 3-element array.  A stored point *)
(* is [lon, lat, alt]; the accessor shape (dim) decides what is read.      *)
(***************************************************************************)
Position3(lon, lat, alt) == JArray(<<lon, lat, alt>>)

Position2(lon, lat) == JArray(<<lon, lat>>)

PointCoordinates(dim, p) == IF dim = 3 THEN Position3(p.lon, p.lat, p.alt) ELSE Position2(p.lon, p.lat)

(***************************************************************************)
(* enum class Type and TypeName; CoordinatesObject<T> wraps a coordinate   *)
(* tree with its type tag.                                                 *)
(***************************************************************************)
Type_Point == 0
Type_MultiPoint == 1
Type_LineString == 2
Type_MultiLineString == 3
Type_Polygon == 4
Type_MultiPolygon == 5
Type_GeometryCollection == 6
Type_Feature == 7
Type_FeatureCollection == 8

\* the switch without its default branch: the last name for anything else
TypeName_NoDefault(type) ==
  CASE type = Type_Point -> Returned("Point", <<>>)
    [] type = Type_MultiPoint -> Returned("MultiPoint", <<>>)
    [] type = Type_LineString -> Returned("LineString", <<>>)
    [] type = Type_MultiLineString -> Returned("MultiLineString", <<>>)
    [] type = Type_Polygon -> Returned("Polygon", <<>>)
    [] type = Type_MultiPolygon -> Returned("MultiPolygon", <<>>)
    [] type = Type_GeometryCollection -> Returned("GeometryCollection", <<>>)
    [] type = Type_Feature -> Returned("Feature", <<>>)
    [] OTHER -> Returned("FeatureCollection", <<>>)

TypeName(type) ==
  CASE type = Type_Point -> Returned("Point", <<>>)
    [] type = Type_MultiPoint -> Returned("MultiPoint", <<>>)
    [] type = Type_LineString -> Returned("LineString", <<>>)
    [] type = Type_MultiLineString -> Returned("MultiLineString", <<>>)
    [] type = Type_Polygon -> Returned("Polygon", <<>>)
    [] type = Type_MultiPolygon -> Returned("MultiPolygon", <<>>)
    [] type = Type_GeometryCollection -> Returned("GeometryCollection", <<>>)
    [] type = Type_Feature -> Returned("Feature", <<>>)
    [] type = Type_FeatureCollection -> Returned("FeatureCollection", <<>>)
    [] OTHER -> Thrown("out_of_range", "Invalid geometry type given", <<>>)

CoordinatesObject(T, coords) == JObject([type |-> TypeName(T).val, coordinates |-> coords])

\* a builder's result: the wrapped tree, or the exception passed on
Wrapped(T, r) == IF r.exc # "none" THEN r ELSE Returned(CoordinatesObject(T, r.val), r.log)

Point2(lon, lat) == CoordinatesObject(Type_Point, Position2(lon, lat))

Point(dim, p) == CoordinatesObject(Type_Point, PointCoordinates(dim, p))

(***************************************************************************)
(* MultiPointCoordinates(numPoints, getPoint): no minimum.  getPoint(i)    *)
(* reads pts[i+1] of the caller's storage.                                 *)
(***************************************************************************)
RECURSIVE MultiPointLoop(_, _, _, _, _, _)
MultiPointLoop(i, numPoints, dim, pts, coords, log) ==
  IF i < numPoints
  THEN MultiPointLoop(i + 1, numPoints, dim, pts,
                      PushBack(coords, PointCoordinates(dim, pts[i + 1])),
                      Append(log, Invoked("getPoint", <<i>>)))
  ELSE Returned(coords, log)

\* the LineString minimum applied to a MultiPoint
MultiPointCoordinates_MinTwo(numPoints, dim, pts) ==
  IF numPoints <= 1
  THEN Thrown("domain_error", kLineStringWhat, <<>>)
  ELSE MultiPointLoop(0, numPoints, dim, pts, JArray(<<>>), <<>>)

MultiPointCoordinates(numPoints, dim, pts) ==
  MultiPointLoop(0, numPoints, dim, pts, JArray(<<>>), <<>>)

MultiPoint(numPoints, dim, pts) ==
  Wrapped(Type_MultiPoint, MultiPointCoordinates(numPoints, dim, pts))

(***************************************************************************)
(* LineStringCoordinates(numPoints, getPoint).  getPoint(i) reads pts[i+1] *)
(* of the caller's storage; pre is the index path a caller's lambda binds. *)
(***************************************************************************)
\* a point the caller was already asked for is not asked for again
RECURSIVE PointLoop_SkipsFetched(_, _, _, _, _, _, _)
PointLoop_SkipsFetched(i, numPoints, dim, pts, pre, coords, log) ==
  IF i < numPoints
  THEN PointLoop_SkipsFetched(i + 1, numPoints, dim, pts, pre,
                              PushBack(coords, PointCoordinates(dim, pts[i + 1])),
                              IF \E k \in DOMAIN calls : calls[k] = Invoked("getPoint", Append(pre, i))
                              THEN log
                              ELSE Append(log, Invoked("getPoint", Append(pre, i))))
  ELSE Returned(coords, log)

RECURSIVE PointLoop(_, _, _, _, _, _, _)
PointLoop(i, numPoints, dim, pts, pre, coords, log) ==
  IF i < numPoints
  THEN PointLoop(i + 1, numPoints, dim, pts, pre,
                 PushBack(coords, PointCoordinates(dim, pts[i + 1])),
                 Append(log, Invoked("getPoint", Append(pre, i))))
  ELSE Returned(coords, log)

\* the minimum tested off by one
LineStringCoordinates_OffByOne(numPoints, dim, pts, pre, log) ==
  IF numPoints < 1
  THEN Thrown("domain_error", kLineStringWhat, log)
  ELSE PointLoop(0, numPoints, dim, pts, pre, JArray(<<>>), log)

LineStringCoordinates(numPoints, dim, pts, pre, log) ==
  IF numPoints <= 1
  THEN Thrown("domain_error", kLineStringWhat, log)
  ELSE PointLoop(0, numPoints, dim, pts, pre, JArray(<<>>), log)

LineString(numPoints, dim, pts) ==
  Wrapped(Type_LineString, LineStringCoordinates(numPoints, dim, pts, <<>>, <<>>))

(***************************************************************************)
(* MultiLineStringCoordinates(numLines, getLineLength, getPoint).          *)
(* getLineLength(i) is Len(lines[i+1]); getPoint(i, j) is lines[i+1][j+1]. *)
(***************************************************************************)
\* every line closed like a ring
RECURSIVE LineLoop_ClosesLines(_, _, _, _, _, _)
LineLoop_ClosesLines(i, numLines, dim, lines, coords, log) ==
  IF i < numLines
  THEN LET r == LineStringCoordinates(Len(lines[i + 1]), dim, lines[i + 1], <<i>>,
                                      Append(log, Invoked("getLineLength", <<i>>)))
       IN IF r.exc # "none" THEN r
          ELSE LineLoop_ClosesLines(i + 1, numLines, dim, lines,
                                    PushBack(coords, PushBack(r.val, At(r.val, 0))), r.log)
  ELSE Returned(coords, log)

RECURSIVE LineLoop(_, _, _, _, _, _)
LineLoop(i, numLines, dim, lines, coords, log) ==
  IF i < numLines
  THEN LET r == LineStringCoordinates(Len(lines[i + 1]), dim, lines[i + 1], <<i>>,
                                      Append(log, Invoked("getLineLength", <<i>>)))
       IN IF r.exc # "none" THEN r
          ELSE LineLoop(i + 1, numLines, dim, lines, PushBack(coords, r.val), r.log)
  ELSE Returned(coords, log)

MultiLineStringCoordinates(numLines, dim, lines) ==
  LineLoop(0, numLines, dim, lines, JArray(<<>>), <<>>)

MultiLineString(numLineStrings, dim, lines) ==
  Wrapped(Type_MultiLineString, MultiLineStringCoordinates(numLineStrings, dim, lines))

(***************************************************************************)
(* IsCcw: the wraparound sum of (x2 - x1) * (y2 + y1), negative for CCW.   *)
(***************************************************************************)
\* the last component of a position (the altitude in 3D) summed as the latitude
RECURSIVE EdgeSumLoop_UsesLast(_, _, _)
EdgeSumLoop_UsesLast(i, coords, cwEdgeSum) ==
  IF i < Size(coords)
  THEN LET pt1 == At(coords, i)
           pt2 == At(coords, (i + 1) % Size(coords))
       IN EdgeSumLoop_UsesLast(i + 1, coords,
                               cwEdgeSum + (At(pt2, 0) - At(pt1, 0))
                                             * (At(pt2, Size(pt2) - 1) + At(pt1, Size(pt1) - 1)))
  ELSE cwEdgeSum

\* the latitudes of an edge subtracted instead of added
RECURSIVE EdgeSumLoop_Difference(_, _, _)
EdgeSumLoop_Difference(i, coords, cwEdgeSum) ==
  IF i < Size(coords)
  THEN LET pt1 == At(coords, i)
           pt2 == At(coords, (i + 1) % Size(coords))
       IN EdgeSumLoop_Difference(i + 1, coords,
                                 cwEdgeSum + (At(pt2, 0) - At(pt1, 0)) * (At(pt2, 1) - At(pt1, 1)))
  ELSE cwEdgeSum

\* the edge from the last position back to the first left out
RECURSIVE EdgeSumLoop_NoWrap(_, _, _)
EdgeSumLoop_NoWrap(i, coords, cwEdgeSum) ==
  IF i + 1 < Size(coords)
  THEN LET pt1 == At(coords, i)
           pt2 == At(coords, i + 1)
       IN EdgeSumLoop_NoWrap(i + 1, coords,
                             cwEdgeSum + (At(pt2, 0) - At(pt1, 0)) * (At(pt2, 1) + At(pt1, 1)))
  ELSE cwEdgeSum

RECURSIVE EdgeSumLoop(_, _, _)
EdgeSumLoop(i, coords, cwEdgeSum) ==
  IF i < Size(coords)
  THEN LET pt1 == At(coords, i)
           pt2 == At(coords, (i + 1) % Size(coords))
       IN EdgeSumLoop(i + 1, coords,
                      cwEdgeSum + (At(pt2, 0) - At(pt1, 0)) * (At(pt2, 1) + At(pt1, 1)))
  ELSE cwEdgeSum

CwEdgeSum(coords) == EdgeSumLoop(0, coords, 0)

IsCcw_Flipped(coords) == CwEdgeSum(coords) > 0

IsCcw_ZeroIsCcw(coords) == CwEdgeSum(coords) <= 0

IsCcw(coords) == CwEdgeSum(coords) < 0

(***************************************************************************)
(* LinearRingCoordinates(numPoints, ccw, getPoint)                         *)
(***************************************************************************)
\* the swap loop run over the whole array, which undoes itself
RECURSIVE SwapLoop_FullLength(_, _)
SwapLoop_FullLength(i, coords) ==
  IF i < Size(coords)
  THEN SwapLoop_FullLength(i + 1, SwapAt(coords, i, Size(coords) - i - 1))
  ELSE coords

RECURSIVE SwapLoop(_, _)
SwapLoop(i, coords) ==
  IF i < Size(coords) \div 2
  THEN SwapLoop(i + 1, SwapAt(coords, i, Size(coords) - i - 1))
  ELSE coords

\* the second case of the test left out
NeedsReverse_OnlyFromCcw(isCcw, ccw) == isCcw /\ ~ccw

\* the requested orientation not consulted
NeedsReverse_IgnoresWanted(isCcw, ccw) == isCcw

NeedsReverse_Inverted(isCcw, ccw) == (isCcw /\ ccw) \/ (~isCcw /\ ~ccw)

NeedsReverse(isCcw, ccw) == (isCcw /\ ~ccw) \/ (~isCcw /\ ccw)

\* the ring left open
CloseRing_NoPush(coords) == coords

\* a ring whose ends already meet is not closed again
CloseRing_IfOpen(coords) ==
  IF At(coords, 0) = At(coords, Size(coords) - 1) THEN coords ELSE PushBack(coords, At(coords, 0))

CloseRing(coords) == PushBack(coords, At(coords, 0))

\* the ring's own minimum left to the line string's
LinearRingCoordinates_NoMinimum(numPoints, ccw, dim, pts, pre, log) ==
  LET ls == LineStringCoordinates(numPoints, dim, pts, pre, log)
  IN IF ls.exc # "none"
     THEN ls
     ELSE LET reverse == NeedsReverse(IsCcw(ls.val), ccw)
              coords == IF reverse THEN SwapLoop(0, ls.val) ELSE ls.val
          IN Returned(CloseRing(coords), ls.log)

\* the points fetched before the ring minimum is tested
LinearRingCoordinates_LateCheck(numPoints, ccw, dim, pts, pre, log) ==
  LET ls == LineStringCoordinates(numPoints, dim, pts, pre, log)
  IN IF ls.exc # "none"
     THEN ls
     ELSE IF numPoints < 3
          THEN Thrown("domain_error", kLinearRingWhat, ls.log)
          ELSE LET reverse == NeedsReverse(IsCcw(ls.val), ccw)
                   coords == IF reverse THEN SwapLoop(0, ls.val) ELSE ls.val
               IN Returned(CloseRing(coords), ls.log)

LinearRingCoordinates(numPoints, ccw, dim, pts, pre, log) ==
  IF numPoints < 3
  THEN Thrown("domain_error", kLinearRingWhat, log)
  ELSE LET ls == LineStringCoordinates(numPoints, dim, pts, pre, log)
       IN IF ls.exc # "none"
          THEN ls
          ELSE LET reverse == NeedsReverse(IsCcw(ls.val), ccw)
                   coords == IF reverse THEN SwapLoop(0, ls.val) ELSE ls.val
               IN Returned(CloseRing(coords), ls.log)

(***************************************************************************)
(* PolygonCoordinates(numRings, getRingLength, getPoint): ring 0 is built  *)
(* counter-clockwise, every other ring clockwise.  coords starts as null.  *)
(***************************************************************************)
\* every ring built as an exterior ring
RECURSIVE RingLoop_AllExterior(_, _, _, _, _, _, _)
RingLoop_AllExterior(i, numRings, dim, rings, pre, coords, log) ==
  IF i < numRings
  THEN LET r == LinearRingCoordinates(Len(rings[i + 1]), TRUE, dim, rings[i + 1],
                                      Append(pre, i),
                                      Append(log, Invoked("getRingLength", Append(pre, i))))
       IN IF r.exc # "none" THEN r
          ELSE RingLoop_AllExterior(i + 1, numRings, dim, rings, pre, PushBack(coords, r.val), r.log)
  ELSE Returned(coords, log)

\* the ring length asked a second time before the ring is built
RECURSIVE RingLoop_LengthTwice(_, _, _, _, _, _, _)
RingLoop_LengthTwice(i, numRings, dim, rings, pre, coords, log) ==
  IF i < numRings
  THEN LET asked == Append(log, Invoked("getRingLength", Append(pre, i)))
           r == LinearRingCoordinates(Len(rings[i + 1]), i = 0, dim, rings[i + 1],
                                      Append(pre, i),
                                      Append(asked, Invoked("getRingLength", Append(pre, i))))
       IN IF r.exc # "none" THEN r
          ELSE RingLoop_LengthTwice(i + 1, numRings, dim, rings, pre, PushBack(coords, r.val), r.log)
  ELSE Returned(coords, log)

RECURSIVE RingLoop(_, _, _, _, _, _, _)
RingLoop(i, numRings, dim, rings, pre, coords, log) ==
  IF i < numRings
  THEN LET r == LinearRingCoordinates(Len(rings[i + 1]), i = 0, dim, rings[i + 1],
                                      Append(pre, i),
                                      Append(log, Invoked("getRingLength", Append(pre, i))))
       IN IF r.exc # "none" THEN r
          ELSE RingLoop(i + 1, numRings, dim, rings, pre, PushBack(coords, r.val), r.log)
  ELSE Returned(coords, log)

PolygonCoordinates(numRings, dim, rings, pre, log) ==
  RingLoop(0, numRings, dim, rings, pre, JNull, log)

Polygon(numRings, dim, rings) ==
  Wrapped(Type_Polygon, PolygonCoordinates(numRings, dim, rings, <<>>, <<>>))

(***************************************************************************)
(* MultiPolygonCoordinates(numPolygons, getNumRings, getRingLength,        *)
(* getPoint): getNumRings(i) is Len(polys[i+1]).  coords starts as null.   *)
(***************************************************************************)
\* the rings of every polygon appended to one flat array
RECURSIVE PolygonLoop_Flat(_, _, _, _, _, _)
PolygonLoop_Flat(i, numPolygons, dim, polys, coords, log) ==
  IF i < numPolygons
  THEN LET r == PolygonCoordinates(Len(polys[i + 1]), dim, polys[i + 1], <<i>>,
                                   Append(log, Invoked("getNumRings", <<i>>)))
       IN IF r.exc # "none" THEN r
          ELSE PolygonLoop_Flat(i + 1, numPolygons, dim, polys,
                                JArray(coords.items \o r.val.items), r.log)
  ELSE Returned(coords, log)

RECURSIVE PolygonLoop(_, _, _, _, _, _)
PolygonLoop(i, numPolygons, dim, polys, coords, log) ==
  IF i < numPolygons
  THEN LET r == PolygonCoordinates(Len(polys[i + 1]), dim, polys[i + 1], <<i>>,
                                   Append(log, Invoked("getNumRings", <<i>>)))
       IN IF r.exc # "none" THEN r
          ELSE PolygonLoop(i + 1, numPolygons, dim, polys, PushBack(coords, r.val), r.log)
  ELSE Returned(coords, log)

MultiPolygonCoordinates(numPolygons, dim, polys) ==
  PolygonLoop(0, numPolygons, dim, polys, JNull, <<>>)

MultiPolygon(numPolygons, dim, polys) ==
  Wrapped(Type_MultiPolygon, MultiPolygonCoordinates(numPolygons, dim, polys))

(***************************************************************************)
(* GeometryCollection(numGeometries, getGeometry): getGeometry(i) is       *)
(* geoms[i+1], an already built geometry object.  j starts as null.        *)
(***************************************************************************)
\* a collection handed in has its members appended instead of itself
RECURSIVE GeometryLoop_Flattens(_, _, _, _, _)
GeometryLoop_Flattens(i, numGeometries, geoms, j, log) ==
  IF i < numGeometries
  THEN LET g == geoms[i + 1]
       IN GeometryLoop_Flattens(i + 1, numGeometries, geoms,
                                IF g.items.type = "GeometryCollection"
                                THEN JArray(j.items \o g.items.geometries.items)
                                ELSE PushBack(j, g),
                                Append(log, Invoked("getGeometry", <<i>>)))
  ELSE Returned(j, log)

RECURSIVE GeometryLoop(_, _, _, _, _)
GeometryLoop(i, numGeometries, geoms, j, log) ==
  IF i < numGeometries
  THEN GeometryLoop(i + 1, numGeometries, geoms, PushBack(j, geoms[i + 1]),
                    Append(log, Invoked("getGeometry", <<i>>)))
  ELSE Returned(j, log)

GeometryCollection(numGeometries, geoms) ==
  LET r == GeometryLoop(0, numGeometries, geoms, JNull, <<>>)
  IN Returned(JObject([type |-> TypeName(Type_GeometryCollection).val, geometries |-> r.val]),
              r.log)

(***************************************************************************)
(* Feature(geometry, properties) and Feature(id, geometry, properties)     *)
(* with a std::string or an arithmetic id: j["id"] = id adds the member.   *)
(***************************************************************************)
SetMember(j, key, v) ==
  JObject([k \in (DOMAIN j.items) \cup {key} |-> IF k = key THEN v ELSE j.items[k]])

Feature(geometry, properties) ==
  JObject([type |-> TypeName(Type_Feature).val, geometry |-> geometry, properties |-> properties])

\* the id dropped
FeatureWithStringId_NoId(id, geometry, properties) == Feature(geometry, properties)

FeatureWithStringId(id, geometry, properties) ==
  SetMember(Feature(geometry, properties), "id", id)

FeatureWithNumberId(id, geometry, properties) ==
  SetMember(Feature(geometry, properties), "id", id)

(***************************************************************************)
(* FeatureCollection(numFeatures, getFeature): getFeature(i) is            *)
(* feats[i+1].  "features" starts as an empty array.                       *)
(***************************************************************************)
RECURSIVE FeatureLoop(_, _, _, _, _)
FeatureLoop(i, numFeatures, feats, featuresJ, log) ==
  IF i < numFeatures
  THEN FeatureLoop(i + 1, numFeatures, feats, PushBack(featuresJ, feats[i + 1]),
                   Append(log, Invoked("getFeature", <<i>>)))
  ELSE Returned(featuresJ, log)

\* "features" left null until the first push
FeatureCollection_NullStart(numFeatures, feats) ==
  LET j == JObject([type |-> TypeName(Type_FeatureCollection).val])
      r == FeatureLoop(0, numFeatures, feats, JNull, <<>>)
  IN Returned(SetMember(j, "features", r.val), r.log)

FeatureCollection(numFeatures, feats) ==
  LET j == JObject([type |-> TypeName(Type_FeatureCollection).val])
      r == FeatureLoop(0, numFeatures, feats, JArray(<<>>), <<>>)
  IN Returned(SetMember(j, "features", r.val), r.log)

(***************************************************************************)
(* The caller's point storage.                                             *)
(***************************************************************************)
GridPoints == {[lon |-> x, lat |-> y, alt |-> 0] : x \in Coord, y \in Coord}

\* a 3D caller stores an altitude with each vertex
WithAlt(pts, a0) == [j \in 1..Len(pts) |-> [pts[j] EXCEPT !.alt = (a0 + j) % (MaxAlt + 1)]]

PointSeqs == UNION {[1..n -> GridPoints] : n \in 0..MaxLen}

Storage(dim, pts, a0) == IF dim = 3 THEN WithAlt(pts, a0) ELSE pts

AltChoices(dim) == IF dim = 3 THEN Alt ELSE {0}

\* lines whose point (i, j) is a grid point fixed by the caller's a, b
LinePoint(a, b, i, j) == [lon |-> (a + i) % (MaxCoord + 1), lat |-> (b + j) % (MaxCoord + 1), alt |-> (i + j) % (MaxAlt + 1)]

LineStorage(lens, a, b) == [i \in 1..Len(lens) |-> [j \in 1..lens[i] |-> LinePoint(a, b, i, j)]]

LineLengths == UNION {[1..n -> 0..MaxLen] : n \in 0..MaxLines}

\* rings of a polygon: every triangle on three corners of the grid (counter-
\* clockwise, clockwise and flat ones), and rings that are too short
Corners == {[lon |-> 0, lat |-> 0, alt |-> 0], [lon |-> MaxCoord, lat |-> 0, alt |-> 0], [lon |-> 0, lat |-> MaxCoord, alt |-> 0]}

ShortRing == <<[lon |-> 0, lat |-> 0, alt |-> 0], [lon |-> MaxCoord, lat |-> 0, alt |-> 0]>>

\* the square of the grid, given counter-clockwise and clockwise
CcwSquare == <<[lon |-> 0, lat |-> 0, alt |-> 0], [lon |-> MaxCoord, lat |-> 0, alt |-> 0], [lon |-> MaxCoord, lat |-> MaxCoord, alt |-> 0], [lon |-> 0, lat |-> MaxCoord, alt |-> 0]>>

CwSquare == <<[lon |-> 0, lat |-> 0, alt |-> 0], [lon |-> 0, lat |-> MaxCoord, alt |-> 0], [lon |-> MaxCoord, lat |-> MaxCoord, alt |-> 0], [lon |-> MaxCoord, lat |-> 0, alt |-> 0]>>

RingChoices == [1..3 -> Corners] \cup {ShortRing, <<>>, CcwSquare, CwSquare}

RingStorage(dim, rings) == [i \in 1..Len(rings) |-> Storage(dim, rings[i], i)]

PolygonRings == UNION {[1..n -> RingChoices] : n \in 0..MaxRings}

\* polygons of a multipolygon: an exterior ring and holes that repeat one ring
CcwTriangle == <<[lon |-> 0, lat |-> 0, alt |-> 0], [lon |-> MaxCoord, lat |-> 0, alt |-> 0], [lon |-> 0, lat |-> MaxCoord, alt |-> 0]>>

CwTriangle == <<[lon |-> 0, lat |-> 0, alt |-> 0], [lon |-> 0, lat |-> MaxCoord, alt |-> 0], [lon |-> MaxCoord, lat |-> 0, alt |-> 0]>>

FlatTriangle == <<[lon |-> 0, lat |-> 0, alt |-> 0], [lon |-> MaxCoord, lat |-> 0, alt |-> 0], [lon |-> 0, lat |-> 0, alt |-> 0]>>

ExteriorAndHole == {CcwTriangle, CwTriangle, FlatTriangle, ShortRing}

PolygonChoices == UNION {{[r \in 1..n |-> IF r = 1 THEN e ELSE h] : e \in ExteriorAndHole, h \in ExteriorAndHole} : n \in 0..MaxRings}

MultiPolygonPolys == UNION {[1..n -> PolygonChoices] : n \in 0..MaxPolys}

PolyStorage(dim, polys) == [p \in 1..Len(polys) |-> RingStorage(dim, polys[p])]

\* geometries handed to a collection: points of the grid, an empty collection
\* and a collection that holds a collection
NestedCollection == GeometryCollection(1, <<GeometryCollection(1, <<Point2(0, 0)>>).val>>).val

GeometryChoices == {Point2(x, y) : x \in Coord, y \in Coord} \cup {GeometryCollection(0, <<>>).val, NestedCollection}

GeometrySeqs == UNION {[1..n -> GeometryChoices] : n \in 0..MaxGeoms}

\* values a caller can hand to TypeName: the enumerators and values cast from
\* integers outside them
TypeValues == (0 - 1)..MaxTypeValue

\* what a caller attaches to a feature
PropertyChoices == {JObject([name |-> "bar", foo |-> 4]), JObject([name |-> "bar2", foo |-> 5])}

StringIds == {"foo", "bar"}

NumberIds == Coord

FeatureChoices == {Feature(Point2(x, y), JObject([name |-> "bar", foo |-> 4])) : x \in Coord, y \in Coord}

FeatureSeqs == UNION {[1..n -> FeatureChoices] : n \in 0..MaxFeatures}

(***************************************************************************)
(* The state machine: a caller makes one call at a time.                   *)
(***************************************************************************)
NoArg == [none |-> TRUE]

Init ==
  /\ pc = "idle"
  /\ op = "none"
  /\ arg = NoArg
  /\ ret = Returned(JNull, <<>>)
  /\ calls = <<>>

Finish(name, a, r) ==
  /\ pc' = "done"
  /\ op' = name
  /\ arg' = a
  /\ ret' = [exc |-> r.exc, what |-> r.what, val |-> r.val]
  /\ calls' = r.log

CallLinearRingCoordinates ==
  /\ pc = "idle"
  /\ \E dim \in Dims, ccw \in BOOLEAN, raw \in PointSeqs :
       \E a0 \in AltChoices(dim) :
         LET pts == Storage(dim, raw, a0)
         IN Finish("LinearRingCoordinates",
                   [numPoints |-> Len(pts), ccw |-> ccw, dim |-> dim, pts |-> pts],
                   LinearRingCoordinates(Len(pts), ccw, dim, pts, <<>>, <<>>))

CallLineString ==
  /\ pc = "idle"
  /\ \E dim \in Dims, n \in 0..MaxLen, a \in Coord, b \in Coord :
       LET pts == LineStorage(<<n>>, a, b)[1]
       IN Finish("LineString",
                 [numPoints |-> n, dim |-> dim, pts |-> pts],
                 LineString(n, dim, pts))

CallMultiLineString ==
  /\ pc = "idle"
  /\ \E dim \in Dims, lens \in LineLengths, a \in Coord, b \in Coord :
       LET lines == LineStorage(lens, a, b)
       IN Finish("MultiLineString",
                 [numLines |-> Len(lines), dim |-> dim, lines |-> lines],
                 MultiLineString(Len(lines), dim, lines))

CallPolygon ==
  /\ pc = "idle"
  /\ \E dim \in Dims, raw \in PolygonRings :
       LET rings == RingStorage(dim, raw)
       IN Finish("Polygon",
                 [numRings |-> Len(rings), dim |-> dim, rings |-> rings],
                 Polygon(Len(rings), dim, rings))

CallMultiPolygon ==
  /\ pc = "idle"
  /\ \E dim \in Dims, raw \in MultiPolygonPolys :
       LET polys == PolyStorage(dim, raw)
       IN Finish("MultiPolygon",
                 [numPolygons |-> Len(polys), dim |-> dim, polys |-> polys],
                 MultiPolygon(Len(polys), dim, polys))

CallGeometryCollection ==
  /\ pc = "idle"
  /\ \E geoms \in GeometrySeqs :
       Finish("GeometryCollection",
              [numGeometries |-> Len(geoms), geoms |-> geoms],
              GeometryCollection(Len(geoms), geoms))

CallIsCcw ==
  /\ pc = "idle"
  /\ \E pts \in PointSeqs :
       LET coords == MultiPointCoordinates(Len(pts), 2, pts).val
       IN Finish("IsCcw",
                 [coords |-> coords, pts |-> pts],
                 Returned(IsCcw(coords), <<>>))

CallMultiPoint ==
  /\ pc = "idle"
  /\ \E dim \in Dims, n \in 0..MaxLen, a \in Coord, b \in Coord :
       LET pts == LineStorage(<<n>>, a, b)[1]
       IN Finish("MultiPoint",
                 [numPoints |-> n, dim |-> dim, pts |-> pts],
                 MultiPoint(n, dim, pts))

CallFeature ==
  /\ pc = "idle"
  /\ \E geometry \in GeometryChoices, properties \in PropertyChoices :
       Finish("Feature",
              [hasId |-> FALSE, geometry |-> geometry, properties |-> properties],
              Returned(Feature(geometry, properties), <<>>))

CallFeatureWithStringId ==
  /\ pc = "idle"
  /\ \E id \in StringIds, geometry \in GeometryChoices, properties \in PropertyChoices :
       Finish("FeatureWithStringId",
              [hasId |-> TRUE, id |-> id, geometry |-> geometry, properties |-> properties],
              Returned(FeatureWithStringId(id, geometry, properties), <<>>))

CallFeatureWithNumberId ==
  /\ pc = "idle"
  /\ \E id \in NumberIds, geometry \in GeometryChoices, properties \in PropertyChoices :
       Finish("FeatureWithNumberId",
              [hasId |-> TRUE, id |-> id, geometry |-> geometry, properties |-> properties],
              Returned(FeatureWithNumberId(id, geometry, properties), <<>>))

CallFeatureCollection ==
  /\ pc = "idle"
  /\ \E feats \in FeatureSeqs :
       Finish("FeatureCollection",
              [numFeatures |-> Len(feats), feats |-> feats],
              FeatureCollection(Len(feats), feats))

CallPoint ==
  /\ pc = "idle"
  /\ \E dim \in Dims, raw \in GridPoints, alt \in Alt :
       LET p == [raw EXCEPT !.alt = IF dim = 3 THEN alt ELSE 0]
       IN Finish("Point", [dim |-> dim, p |-> p], Returned(Point(dim, p), <<>>))

CallTypeName ==
  /\ pc = "idle"
  /\ \E type \in TypeValues :
       Finish("TypeName", [type |-> type], TypeName(type))

\* the caller takes the result (or catches the exception) and goes on
CallerContinues ==
  /\ pc \in {"done", "again"}
  /\ pc' = "idle"
  /\ op' = "none"
  /\ arg' = NoArg
  /\ ret' = Returned(JNull, <<>>)
  /\ calls' = <<>>

Next ==
  \/ CallLinearRingCoordinates
  \/ CallLineString
  \/ CallMultiLineString
  \/ CallPolygon
  \/ CallMultiPolygon
  \/ CallGeometryCollection
  \/ CallIsCcw
  \/ CallMultiPoint
  \/ CallFeature
  \/ CallFeatureWithStringId
  \/ CallFeatureWithNumberId
  \/ CallFeatureCollection
  \/ CallPoint
  \/ CallTypeName
  \/ CallerContinues

\* the entry point op called with the arguments arg
Recall(name, a) ==
  CASE name = "LinearRingCoordinates" ->
         LinearRingCoordinates(a.numPoints, a.ccw, a.dim, a.pts, <<>>, <<>>)
    [] name = "LineString" -> LineString(a.numPoints, a.dim, a.pts)
    [] name = "MultiLineString" -> MultiLineString(a.numLines, a.dim, a.lines)
    [] name = "Polygon" -> Polygon(a.numRings, a.dim, a.rings)
    [] name = "MultiPolygon" -> MultiPolygon(a.numPolygons, a.dim, a.polys)
    [] name = "GeometryCollection" -> GeometryCollection(a.numGeometries, a.geoms)
    [] name = "IsCcw" -> Returned(IsCcw(a.coords), <<>>)
    [] name = "MultiPoint" -> MultiPoint(a.numPoints, a.dim, a.pts)
    [] name = "Feature" -> Returned(Feature(a.geometry, a.properties), <<>>)
    [] name = "FeatureWithStringId" ->
         Returned(FeatureWithStringId(a.id, a.geometry, a.properties), <<>>)
    [] name = "FeatureWithNumberId" ->
         Returned(FeatureWithNumberId(a.id, a.geometry, a.properties), <<>>)
    [] name = "FeatureCollection" -> FeatureCollection(a.numFeatures, a.feats)
    [] name = "Point" -> Returned(Point(a.dim, a.p), <<>>)
    [] name = "TypeName" -> TypeName(a.type)

\* the caller makes the same call once more: same counts, accessors that
\* return the same values
CallAgain ==
  /\ pc = "done"
  /\ LET r == Recall(op, arg)
     IN /\ pc' = "again"
        /\ op' = op
        /\ arg' = arg
        /\ ret' = [exc |-> r.exc, what |-> r.what, val |-> r.val]
        /\ calls' = r.log

NextWithRepeat ==
  \/ Next
  \/ CallAgain

Spec == Init /\ [][Next]_vars

SpecWithRepeat == Init /\ [][NextWithRepeat]_vars

(***************************************************************************)
(* What the properties are stated in: the caller's own view of its data,   *)
(* computed from the stored points and not from the library's operators.   *)
(***************************************************************************)
Done(name) == pc = "done" /\ op = name

Succeeded == ret.exc = "none"

InvalidGeometry == ret.exc = "domain_error"

\* the position the caller expects for a stored point
Expected(dim, p) == JArray(IF dim = 3 THEN <<p.lon, p.lat, p.alt>> ELSE <<p.lon, p.lat>>)

ExpectedSeq(dim, pts) == [k \in 1..Len(pts) |-> Expected(dim, pts[k])]

Reversed(s) == [k \in 1..Len(s) |-> s[Len(s) + 1 - k]]

Closed(s) == Append(s, s[1])

\* the shoelace sum of lon/lat pairs xy[1..n], last joined to first
RECURSIVE ShoelaceUpTo(_, _)
ShoelaceUpTo(xy, k) ==
  IF k = 0 THEN 0
  ELSE LET nxt == xy[(k % Len(xy)) + 1]
       IN ShoelaceUpTo(xy, k - 1) + (nxt[1] - xy[k][1]) * (nxt[2] + xy[k][2])

Shoelace(xy) == ShoelaceUpTo(xy, Len(xy))

StoredXY(pts) == [k \in 1..Len(pts) |-> <<pts[k].lon, pts[k].lat>>]

\* lon/lat of the first n positions of a ring the library returned
RingXY(ring, n) == [k \in 1..n |-> <<ring.items[k].items[1], ring.items[k].items[2]>>]

\* the ring a role (exterior or hole) requires for stored points
Normalised(dim, pts, wantCcw) ==
  LET raw == ExpectedSeq(dim, pts)
      rawCcw == Shoelace(StoredXY(pts)) < 0
  IN Closed(IF rawCcw = wantCcw THEN raw ELSE Reversed(raw))

\* the orientation a ring of the result has for its role, given the raw sum:
\* strict when the raw ring has an orientation, none when its sum is zero
Oriented(ring, pts, wantCcw) ==
  LET sIn == Shoelace(StoredXY(pts))
      sOut == Shoelace(RingXY(ring, Len(pts)))
  IN /\ sIn # 0 => IF wantCcw THEN sOut < 0 ELSE sOut > 0
     /\ sIn = 0 => sOut = 0

StrictlyOriented(ring, pts, wantCcw) ==
  LET sOut == Shoelace(RingXY(ring, Len(pts)))
  IN IF wantCcw THEN sOut < 0 ELSE sOut > 0

(***************************************************************************)
(* C1: for every count >= 3, every accessor and both values of wantCcw,    *)
(* LinearRingCoordinates returns exactly count + 1 positions, the last     *)
(* equal to the first.                                                     *)
(***************************************************************************)
C1_RingClosedWithCountPlusOne ==
  (Done("LinearRingCoordinates") /\ arg.numPoints >= 3) =>
    /\ Succeeded
    /\ IsArray(ret.val)
    /\ Len(ret.val.items) = arg.numPoints + 1
    /\ Len(ret.val.items) >= 4
    /\ ret.val.items[arg.numPoints + 1] = ret.val.items[1]

C1_Witness ==
  /\ Done("LinearRingCoordinates") /\ Succeeded
  /\ arg.numPoints = 4 /\ arg.dim = 3 /\ ~arg.ccw
  /\ Len(ret.val.items) = 5
  /\ ret.val.items[1] # ret.val.items[2]

(***************************************************************************)
(* C2 as stated: for all count >= 3 and any accessor, the first count      *)
(* positions of the ring have a strictly negative shoelace sum when        *)
(* wantCcw is true and a strictly positive one when it is false.           *)
(***************************************************************************)
C2_OrientationForEveryAccessor ==
  (Done("LinearRingCoordinates") /\ arg.numPoints >= 3) =>
    /\ Succeeded
    /\ StrictlyOriented(ret.val, arg.pts, arg.ccw)
    /\ IsCcw(JArray(SubSeq(ret.val.items, 1, arg.numPoints))) = arg.ccw

(***************************************************************************)
(* C2 amended: when the raw sequence has a non-zero shoelace sum, the      *)
(* first count positions of the ring are evaluated counter-clockwise for   *)
(* wantCcw = true and clockwise for wantCcw = false; a raw sequence with   *)
(* sum zero gives a ring with sum zero, which IsCcw reports as not         *)
(* counter-clockwise whatever was asked.                                   *)
(***************************************************************************)
C2_OrientationWhenSumNonZero ==
  (Done("LinearRingCoordinates") /\ arg.numPoints >= 3) =>
    /\ Succeeded
    /\ Oriented(ret.val, arg.pts, arg.ccw)
    /\ LET prefix == JArray(SubSeq(ret.val.items, 1, arg.numPoints))
       IN IF Shoelace(StoredXY(arg.pts)) # 0
          THEN IsCcw(prefix) = arg.ccw
          ELSE ~IsCcw(prefix)

C2_Witness ==
  /\ Done("LinearRingCoordinates") /\ Succeeded
  /\ arg.numPoints = 4 /\ arg.ccw
  /\ Shoelace(StoredXY(arg.pts)) > 0
  /\ Shoelace(RingXY(ret.val, 4)) < 0

(***************************************************************************)
(* C3: when the raw ring is clockwise and wantCcw = true, or counter-      *)
(* clockwise and wantCcw = false, the output without its closing position  *)
(* is the input reversed end to end: output[k] = input[count - 1 - k], and *)
(* the ring closes with the input's last vertex.                           *)
(***************************************************************************)
C3_ReversedWhenOrientationDisagrees ==
  LET s == Shoelace(StoredXY(arg.pts))
      n == arg.numPoints
      raw == ExpectedSeq(arg.dim, arg.pts)
  IN (Done("LinearRingCoordinates") /\ n >= 3 /\ ((s > 0 /\ arg.ccw) \/ (s < 0 /\ ~arg.ccw))) =>
       /\ Succeeded
       /\ \A k \in 0..(n - 1) : At(ret.val, k) = raw[(n - 1 - k) + 1]
       /\ At(ret.val, 0) = raw[n]
       /\ At(ret.val, n) = raw[n]

C3_Witness ==
  /\ Done("LinearRingCoordinates") /\ Succeeded
  /\ arg.numPoints = 4 /\ arg.dim = 3 /\ ~arg.ccw
  /\ Shoelace(StoredXY(arg.pts)) < 0
  /\ At(ret.val, 1) = Expected(3, arg.pts[3])
  /\ At(ret.val, 1) # At(ret.val, 2)

(***************************************************************************)
(* C4: when the raw ring already has the requested orientation, the output *)
(* is the input in unchanged order followed by a copy of input[0].         *)
(***************************************************************************)
C4_KeptWhenOrientationAgrees ==
  LET s == Shoelace(StoredXY(arg.pts))
  IN (Done("LinearRingCoordinates") /\ arg.numPoints >= 3
        /\ ((s < 0 /\ arg.ccw) \/ (s > 0 /\ ~arg.ccw))) =>
       /\ Succeeded
       /\ ret.val.items = Closed(ExpectedSeq(arg.dim, arg.pts))

C4_Witness ==
  /\ Done("LinearRingCoordinates") /\ Succeeded
  /\ arg.numPoints = 4 /\ arg.ccw
  /\ Shoelace(StoredXY(arg.pts)) < 0
  /\ At(ret.val, 1) = Expected(arg.dim, arg.pts[2])
  /\ At(ret.val, 1) # At(ret.val, 3)

(***************************************************************************)
(* C5: a ring of 0, 1 or 2 points fails with InvalidGeometry, and for all  *)
(* three counts the failure names the ring rule, not the line rule.        *)
(***************************************************************************)
C5_ShortRingNamesRingRule ==
  (Done("LinearRingCoordinates") /\ arg.numPoints \in {0, 1, 2}) =>
    /\ InvalidGeometry
    /\ ret.what = "Linear rings must have at least 3 points"
    /\ ret.what # "LineString objects must have at least 2 points"

C5_Witness ==
  /\ Done("LinearRingCoordinates") /\ arg.numPoints = 1
  /\ InvalidGeometry
  /\ ret.what = "Linear rings must have at least 3 points"

(***************************************************************************)
(* C6: a LineString, and the build of every line of a MultiLineString,     *)
(* fails with InvalidGeometry when the line has 0 or 1 points and succeeds *)
(* for 2 or more, with the 2D and with the 3D accessor.                    *)
(***************************************************************************)
C6_LineNeedsTwoPoints ==
  /\ Done("LineString") =>
       IF arg.numPoints \in {0, 1} THEN InvalidGeometry ELSE Succeeded
  /\ Done("MultiLineString") =>
       IF \E i \in 1..arg.numLines : Len(arg.lines[i]) \in {0, 1}
       THEN InvalidGeometry
       ELSE Succeeded /\ Size(ret.val.items.coordinates) = arg.numLines

C6_Witness ==
  /\ Done("MultiLineString") /\ arg.dim = 3 /\ arg.numLines = 2
  /\ Len(arg.lines[1]) = 2 /\ Len(arg.lines[2]) = 1
  /\ InvalidGeometry
  /\ ret.what = "LineString objects must have at least 2 points"

(***************************************************************************)
(* C7: in a polygon ring 0 is normalised as the exterior and every ring    *)
(* i >= 1 as a hole: ring 0 is the raw ring reversed exactly when the raw  *)
(* ring is not evaluated counter-clockwise, ring i >= 1 is the raw ring    *)
(* reversed exactly when it is, and every ring is closed, of length        *)
(* ringLength(i) + 1.                                                      *)
(***************************************************************************)
C7_PolygonExteriorAndHoles ==
  (Done("Polygon") /\ Succeeded) =>
    LET coords == ret.val.items.coordinates
    IN /\ Size(coords) = arg.numRings
       /\ \A i \in 1..arg.numRings :
            /\ IsArray(coords.items[i])
            /\ Len(coords.items[i].items) = Len(arg.rings[i]) + 1
            /\ coords.items[i].items = Normalised(arg.dim, arg.rings[i], i = 1)

C7_Witness ==
  /\ Done("Polygon") /\ Succeeded /\ arg.numRings = 2 /\ arg.dim = 3
  /\ Len(arg.rings[1]) = 4 /\ Len(arg.rings[2]) = 3
  /\ Shoelace(StoredXY(arg.rings[1])) > 0
  /\ Shoelace(StoredXY(arg.rings[2])) < 0
  /\ At(At(ret.val.items.coordinates, 0), 1) = Expected(3, arg.rings[1][3])
  /\ At(At(ret.val.items.coordinates, 1), 0) = Expected(3, arg.rings[2][3])

(***************************************************************************)
(* C8 as stated: a MultiPolygon of N polygons has N entries, polygon p has *)
(* ringCount(p) rings, and in every polygon ring 0 is counter-clockwise    *)
(* and every ring >= 1 clockwise.                                          *)
(***************************************************************************)
C8_MultiPolygonRolesForEveryRing ==
  (Done("MultiPolygon") /\ Succeeded) =>
    LET coords == ret.val.items.coordinates
    IN /\ Size(coords) = arg.numPolygons
       /\ \A p \in 1..arg.numPolygons :
            /\ Size(coords.items[p]) = Len(arg.polys[p])
            /\ \A r \in 1..Len(arg.polys[p]) :
                 StrictlyOriented(coords.items[p].items[r], arg.polys[p][r], r = 1)

(***************************************************************************)
(* C8 amended: a MultiPolygon of N polygons has N entries (size() of the   *)
(* coordinates), polygon p has ringCount(p) rings, so the rings total the  *)
(* sum of ringCount(p); the role is assigned per polygon: in every polygon *)
(* a ring 0 whose raw shoelace sum is non-zero is counter-clockwise and a  *)
(* ring >= 1 whose raw sum is non-zero is clockwise, and a ring whose raw  *)
(* sum is zero keeps sum zero.                                             *)
(***************************************************************************)
RECURSIVE RingTotal(_, _)
RingTotal(items, p) == IF p = 0 THEN 0 ELSE RingTotal(items, p - 1) + Size(items[p])

RECURSIVE DeclaredTotal(_, _)
DeclaredTotal(polys, p) == IF p = 0 THEN 0 ELSE DeclaredTotal(polys, p - 1) + Len(polys[p])

C8_MultiPolygonRolesPerPolygon ==
  (Done("MultiPolygon") /\ Succeeded) =>
    LET coords == ret.val.items.coordinates
    IN /\ Size(coords) = arg.numPolygons
       /\ \A p \in 1..arg.numPolygons :
            /\ Size(coords.items[p]) = Len(arg.polys[p])
            /\ \A r \in 1..Len(arg.polys[p]) :
                 /\ Len(coords.items[p].items[r].items) = Len(arg.polys[p][r]) + 1
                 /\ Oriented(coords.items[p].items[r], arg.polys[p][r], r = 1)
       /\ RingTotal(coords.items, arg.numPolygons) = DeclaredTotal(arg.polys, arg.numPolygons)

C8_Witness ==
  /\ Done("MultiPolygon") /\ Succeeded /\ arg.numPolygons = 2
  /\ Len(arg.polys[1]) = 1 /\ Len(arg.polys[2]) = 2
  /\ Shoelace(StoredXY(arg.polys[1][1])) > 0
  /\ Shoelace(StoredXY(arg.polys[2][1])) > 0
  /\ Shoelace(StoredXY(arg.polys[2][2])) < 0
  /\ Size(At(ret.val.items.coordinates, 0)) = 1
  /\ Size(At(ret.val.items.coordinates, 1)) = 2

(***************************************************************************)
(* C9: a GeometryCollection of 0 geometries succeeds and its "geometries"  *)
(* member is an empty array of length 0, not a null value.                 *)
(***************************************************************************)
C9_EmptyCollectionIsEmptyArray ==
  (Done("GeometryCollection") /\ arg.numGeometries = 0) =>
    /\ Succeeded
    /\ IsArray(ret.val.items.geometries)
    /\ ~IsNull(ret.val.items.geometries)
    /\ Size(ret.val.items.geometries) = 0

(***************************************************************************)
(* C10: the "coordinates" of a Polygon is an array of exactly numRings     *)
(* entries and the "coordinates" of a MultiPolygon an array of exactly     *)
(* numPolygons entries, each an array of getNumRings(p) rings; a count of  *)
(* 0 gives an empty array, never null.                                     *)
(***************************************************************************)
C10_CoordinatesIsAlwaysArray ==
  /\ (Done("Polygon") /\ Succeeded) =>
       /\ IsArray(ret.val.items.coordinates)
       /\ Size(ret.val.items.coordinates) = arg.numRings
  /\ (Done("MultiPolygon") /\ Succeeded) =>
       /\ IsArray(ret.val.items.coordinates)
       /\ Size(ret.val.items.coordinates) = arg.numPolygons
       /\ \A p \in 1..arg.numPolygons :
            /\ IsArray(ret.val.items.coordinates.items[p])
            /\ Size(ret.val.items.coordinates.items[p]) = Len(arg.polys[p])

(***************************************************************************)
(* C11: for every sequence of integer points of the grid, IsCcw answers    *)
(* true exactly when the wraparound sum of (x2 - x1) * (y2 + y1) is        *)
(* strictly negative, which is exactly when the signed area, the sum of    *)
(* x1 * y2 - x2 * y1, is strictly positive; the unit square                *)
(* (0,0),(1,0),(1,1),(0,1) is counter-clockwise and (0,0),(0,1),(1,1),     *)
(* (1,0) is clockwise.                                                     *)
(***************************************************************************)
RECURSIVE SignedAreaUpTo(_, _)
SignedAreaUpTo(xy, k) ==
  IF k = 0 THEN 0
  ELSE LET nxt == xy[(k % Len(xy)) + 1]
       IN SignedAreaUpTo(xy, k - 1) + (xy[k][1] * nxt[2] - nxt[1] * xy[k][2])

SignedArea(xy) == SignedAreaUpTo(xy, Len(xy))

C11_IsCcwAgreesWithSignedArea ==
  Done("IsCcw") =>
    LET xy == StoredXY(arg.pts)
    IN /\ Succeeded
       /\ ret.val = (Shoelace(xy) < 0)
       /\ ret.val = (SignedArea(xy) > 0)
       /\ xy = <<(<<0, 0>>), (<<1, 0>>), (<<1, 1>>), (<<0, 1>>)>> => ret.val = TRUE
       /\ xy = <<(<<0, 0>>), (<<0, 1>>), (<<1, 1>>), (<<1, 0>>)>> => ret.val = FALSE

C11_Witness ==
  /\ Done("IsCcw")
  /\ StoredXY(arg.pts) = <<(<<0, 0>>), (<<1, 0>>), (<<1, 1>>), (<<0, 1>>)>>
  /\ SignedArea(StoredXY(arg.pts)) = 2
  /\ ret.val = TRUE

(***************************************************************************)
(* C12 as stated: a ring whose orientation sum is exactly zero is handled  *)
(* by LinearRingCoordinates the way a counter-clockwise ring is handled    *)
(* (kept when counter-clockwise is wanted, reversed when clockwise is      *)
(* wanted), and no error is raised.                                        *)
(***************************************************************************)
C12_ZeroSumHandledAsCcw ==
  (Done("LinearRingCoordinates") /\ arg.numPoints >= 3
     /\ Shoelace(StoredXY(arg.pts)) = 0) =>
    LET raw == ExpectedSeq(arg.dim, arg.pts)
    IN /\ Succeeded
       /\ ret.val.items = Closed(IF arg.ccw THEN raw ELSE Reversed(raw))

(***************************************************************************)
(* C12 amended: IsCcw answers false (not counter-clockwise) for a          *)
(* sequence whose orientation sum is exactly zero, so                      *)
(* LinearRingCoordinates handles a zero-sum ring the way it handles a      *)
(* clockwise one: reversed when counter-clockwise is wanted, kept when     *)
(* clockwise is wanted; no error is raised.                                *)
(***************************************************************************)
C12_ZeroSumHandledAsCw ==
  /\ (Done("IsCcw") /\ Shoelace(StoredXY(arg.pts)) = 0) =>
       Succeeded /\ ret.val = FALSE
  /\ (Done("LinearRingCoordinates") /\ arg.numPoints >= 3
        /\ Shoelace(StoredXY(arg.pts)) = 0) =>
       LET raw == ExpectedSeq(arg.dim, arg.pts)
       IN /\ Succeeded
          /\ ret.val.items = Closed(IF arg.ccw THEN Reversed(raw) ELSE raw)

C12_Witness ==
  /\ Done("LinearRingCoordinates") /\ Succeeded
  /\ arg.numPoints = 3 /\ arg.ccw
  /\ Shoelace(StoredXY(arg.pts)) = 0
  /\ ret.val.items # Closed(ExpectedSeq(arg.dim, arg.pts))
  /\ ret.val.items = Closed(Reversed(ExpectedSeq(arg.dim, arg.pts)))

(***************************************************************************)
(* C13: MultiPoint and LineString coordinates are an open sequence of      *)
(* exactly count positions, position i being the encoding of accessor(i),  *)
(* and the accessor is invoked for 0 .. count-1 in ascending order, once   *)
(* each; MultiPoint has no minimum: count 0 gives an empty array and no    *)
(* error.                                                                  *)
(***************************************************************************)
ExpectedPointCalls(pre, n) == [k \in 1..n |-> Invoked("getPoint", Append(pre, k - 1))]

OpenSequence(coords, n, dim, pts) ==
  /\ IsArray(coords)
  /\ Size(coords) = n
  /\ coords.items = ExpectedSeq(dim, pts)
  /\ calls = ExpectedPointCalls(<<>>, n)

C13_OpenSequenceOfCountPositions ==
  /\ Done("MultiPoint") =>
       /\ Succeeded
       /\ OpenSequence(ret.val.items.coordinates, arg.numPoints, arg.dim, arg.pts)
       /\ arg.numPoints = 0 => ret.val.items.coordinates = JArray(<<>>)
  /\ (Done("LineString") /\ Succeeded) =>
       OpenSequence(ret.val.items.coordinates, arg.numPoints, arg.dim, arg.pts)

C13_Witness ==
  /\ Done("MultiPoint") /\ Succeeded
  /\ arg.numPoints = 3 /\ arg.dim = 3
  /\ Size(ret.val.items.coordinates) = 3
  /\ ret.val.items.coordinates.items[1] # ret.val.items.coordinates.items[2]
  /\ calls = <<Invoked("getPoint", <<0>>), Invoked("getPoint", <<1>>), Invoked("getPoint", <<2>>)>>

(***************************************************************************)
(* C14: in a successful MultiLineString, Polygon or MultiPolygon build     *)
(* every accessor is invoked exactly once per index, in index order: the   *)
(* count accessor of element i once, after the point accessors of element  *)
(* i-1 and before those of element i; getNumRings(p) once before any       *)
(* getRingLength(p, r); no index is queried twice.                         *)
(***************************************************************************)
RECURSIVE ExpectedElementCalls(_, _, _, _)
ExpectedElementCalls(countName, pre, elems, i) ==
  IF i = 0 THEN <<>>
  ELSE ExpectedElementCalls(countName, pre, elems, i - 1)
         \o <<Invoked(countName, Append(pre, i - 1))>>
         \o ExpectedPointCalls(Append(pre, i - 1), Len(elems[i]))

RECURSIVE ExpectedPolygonCalls(_, _)
ExpectedPolygonCalls(polys, p) ==
  IF p = 0 THEN <<>>
  ELSE ExpectedPolygonCalls(polys, p - 1)
         \o <<Invoked("getNumRings", <<p - 1>>)>>
         \o ExpectedElementCalls("getRingLength", <<p - 1>>, polys[p], Len(polys[p]))

NoIndexTwice == Cardinality({calls[k] : k \in DOMAIN calls}) = Len(calls)

C14_EveryAccessorOncePerIndexInOrder ==
  /\ (Done("MultiLineString") /\ Succeeded) =>
       /\ calls = ExpectedElementCalls("getLineLength", <<>>, arg.lines, arg.numLines)
       /\ NoIndexTwice
  /\ (Done("Polygon") /\ Succeeded) =>
       /\ calls = ExpectedElementCalls("getRingLength", <<>>, arg.rings, arg.numRings)
       /\ NoIndexTwice
  /\ (Done("MultiPolygon") /\ Succeeded) =>
       /\ calls = ExpectedPolygonCalls(arg.polys, arg.numPolygons)
       /\ NoIndexTwice

C14_Witness ==
  /\ Done("MultiPolygon") /\ Succeeded
  /\ arg.numPolygons = 2 /\ Len(arg.polys[1]) = 1 /\ Len(arg.polys[2]) = 2
  /\ Len(calls) = 14
  /\ calls[1] = Invoked("getNumRings", <<0>>)
  /\ calls[2] = Invoked("getRingLength", <<0, 0>>)
  /\ calls[6] = Invoked("getNumRings", <<1>>)
  /\ calls[7] = Invoked("getRingLength", <<1, 0>>)
  /\ calls[14] = Invoked("getPoint", <<1, 1, 2>>)

(***************************************************************************)
(* C15: the coordinates of a MultiLineString have exactly lineCount        *)
(* entries; entry i has exactly lineLength(i) positions, position j being  *)
(* the encoding of accessor(i, j); every line is left open, with no        *)
(* closing duplicate; lineCount 0 gives an empty array.                    *)
(***************************************************************************)
C15_MultiLineStringTree ==
  Done("MultiLineString") =>
    IF \A i \in 1..arg.numLines : Len(arg.lines[i]) >= 2
    THEN LET coords == ret.val.items.coordinates
         IN /\ Succeeded
            /\ IsArray(coords)
            /\ Size(coords) = arg.numLines
            /\ arg.numLines = 0 => coords = JArray(<<>>)
            /\ \A i \in 1..arg.numLines :
                 /\ IsArray(coords.items[i])
                 /\ Size(coords.items[i]) = Len(arg.lines[i])
                 /\ coords.items[i].items = ExpectedSeq(arg.dim, arg.lines[i])
    ELSE ~Succeeded

C15_Witness ==
  /\ Done("MultiLineString") /\ Succeeded
  /\ arg.numLines = 2 /\ arg.dim = 2
  /\ Len(arg.lines[1]) = 2 /\ Len(arg.lines[2]) = 3
  /\ Size(ret.val.items.coordinates.items[2]) = 3
  /\ ret.val.items.coordinates.items[2].items[3] = ret.val.items.coordinates.items[2].items[1]
  /\ ret.val.items.coordinates.items[1].items[1] # ret.val.items.coordinates.items[2].items[1]

(***************************************************************************)
(* C16: when a line has fewer than 2 points or a ring fewer than 3, the    *)
(* whole build fails at once with InvalidGeometry: nothing is returned,    *)
(* no point accessor is invoked for the offending element, and no count    *)
(* or point accessor is invoked for any later element.                     *)
(***************************************************************************)
FirstShort(elems, min) == CHOOSE i \in 1..Len(elems) :
  /\ Len(elems[i]) < min
  /\ \A k \in 1..(i - 1) : Len(elems[k]) >= min

HasShort(elems, min) == \E i \in 1..Len(elems) : Len(elems[i]) < min

\* the accessor calls up to and including the count of the first short element
CallsUntilShort(countName, pre, elems, min) ==
  LET f == FirstShort(elems, min)
  IN ExpectedElementCalls(countName, pre, elems, f - 1)
       \o <<Invoked(countName, Append(pre, f - 1))>>

FailedAtOnce(expectedCalls) ==
  /\ InvalidGeometry
  /\ ret.val = JNull
  /\ calls = expectedCalls

C16_ShortElementFailsWholeBuild ==
  /\ (Done("LineString") /\ arg.numPoints < 2) => FailedAtOnce(<<>>)
  /\ (Done("LinearRingCoordinates") /\ arg.numPoints < 3) => FailedAtOnce(<<>>)
  /\ (Done("MultiLineString") /\ HasShort(arg.lines, 2)) =>
       FailedAtOnce(CallsUntilShort("getLineLength", <<>>, arg.lines, 2))
  /\ (Done("Polygon") /\ HasShort(arg.rings, 3)) =>
       FailedAtOnce(CallsUntilShort("getRingLength", <<>>, arg.rings, 3))
  /\ (Done("MultiPolygon") /\ \E p \in 1..arg.numPolygons : HasShort(arg.polys[p], 3)) =>
       LET p == CHOOSE q \in 1..arg.numPolygons :
                  /\ HasShort(arg.polys[q], 3)
                  /\ \A k \in 1..(q - 1) : ~HasShort(arg.polys[k], 3)
       IN FailedAtOnce(ExpectedPolygonCalls(arg.polys, p - 1)
                         \o <<Invoked("getNumRings", <<p - 1>>)>>
                         \o CallsUntilShort("getRingLength", <<p - 1>>, arg.polys[p], 3))

C16_Witness ==
  /\ Done("MultiPolygon") /\ InvalidGeometry
  /\ arg.numPolygons = 2
  /\ Len(arg.polys[1]) = 2 /\ Len(arg.polys[1][1]) = 3 /\ Len(arg.polys[1][2]) = 2
  /\ Len(calls) = 6
  /\ calls[6] = Invoked("getRingLength", <<0, 1>>)
  /\ calls[5] = Invoked("getPoint", <<0, 0, 2>>)

(***************************************************************************)
(* C17: the altitude never influences ring normalisation: two 3D rings     *)
(* with the same longitude/latitude sequence and different altitudes get   *)
(* the same reverse-or-keep decision (the one the ring without altitudes   *)
(* gets), and in the output every altitude stays with its vertex.          *)
(***************************************************************************)
LonLatOrder(ring) == RingXY(ring, Len(ring.items))

C17_AltitudeNeverInfluencesRing ==
  (Done("LinearRingCoordinates") /\ arg.dim = 3 /\ arg.numPoints >= 3) =>
    LET flat == [k \in 1..arg.numPoints |-> [arg.pts[k] EXCEPT !.alt = 0]]
        lifted == [k \in 1..arg.numPoints |->
                     [arg.pts[k] EXCEPT !.alt = (arg.pts[k].alt + k) % (MaxAlt + 1)]]
        order == LonLatOrder(ret.val)
    IN /\ Succeeded
       /\ ret.val.items = Normalised(3, arg.pts, arg.ccw)
       /\ order = LonLatOrder(LinearRingCoordinates(arg.numPoints, arg.ccw, 2, flat, <<>>, <<>>).val)
       /\ order = LonLatOrder(LinearRingCoordinates(arg.numPoints, arg.ccw, 3, lifted, <<>>, <<>>).val)

C17_Witness ==
  /\ Done("LinearRingCoordinates") /\ Succeeded
  /\ arg.dim = 3 /\ arg.numPoints = 3 /\ arg.ccw
  /\ arg.pts[1].alt # arg.pts[2].alt
  /\ StoredXY(arg.pts) = <<(<<0, 0>>), (<<0, 1>>), (<<1, 0>>)>>
  /\ ret.val.items[1] = Expected(3, arg.pts[3])
  /\ ret.val.items[3] = Expected(3, arg.pts[1])
  /\ ret.val.items[1].items[3] # ret.val.items[2].items[3]

(***************************************************************************)
(* C18: Feature(geometry, properties) is an object with "type" "Feature",  *)
(* the given geometry and the given properties, and no "id"; Feature(id,   *)
(* geometry, properties) with a string or a numeric id is the same object  *)
(* plus exactly one "id" member holding the id.                            *)
(***************************************************************************)
FeatureMembers(j, geometry, properties) ==
  /\ j.kind = "object"
  /\ j.items.type = "Feature"
  /\ j.items.geometry = geometry
  /\ j.items.properties = properties

C18_FeatureMembersAndId ==
  /\ Done("Feature") =>
       /\ Succeeded
       /\ DOMAIN ret.val.items = {"type", "geometry", "properties"}
       /\ "id" \notin DOMAIN ret.val.items
       /\ FeatureMembers(ret.val, arg.geometry, arg.properties)
  /\ (Done("FeatureWithStringId") \/ Done("FeatureWithNumberId")) =>
       /\ Succeeded
       /\ DOMAIN ret.val.items = {"type", "geometry", "properties", "id"}
       /\ FeatureMembers(ret.val, arg.geometry, arg.properties)
       /\ ret.val.items.id = arg.id

C18_Witness ==
  /\ Done("FeatureWithStringId")
  /\ arg.id = "foo"
  /\ arg.geometry = Point2(1, 0)
  /\ ret.val.items.id = "foo"
  /\ ret.val.items.geometry.items.type = "Point"
  /\ ret.val.items.properties.items.name = "bar2"

(***************************************************************************)
(* C19: FeatureCollection(numFeatures, getFeature) is an object with       *)
(* "type" "FeatureCollection" and a "features" array of exactly            *)
(* numFeatures entries, features[i] being getFeature(i); numFeatures 0     *)
(* gives an empty array.                                                   *)
(***************************************************************************)
C19_FeatureCollectionMembers ==
  Done("FeatureCollection") =>
    /\ Succeeded
    /\ ret.val.kind = "object"
    /\ DOMAIN ret.val.items = {"type", "features"}
    /\ ret.val.items.type = "FeatureCollection"
    /\ IsArray(ret.val.items.features)
    /\ Size(ret.val.items.features) = arg.numFeatures
    /\ \A i \in 1..arg.numFeatures : ret.val.items.features.items[i] = arg.feats[i]
    /\ arg.numFeatures = 0 => ret.val.items.features = JArray(<<>>)

C19_Witness ==
  /\ Done("FeatureCollection")
  /\ arg.numFeatures = 2
  /\ arg.feats[1] # arg.feats[2]
  /\ Size(ret.val.items.features) = 2
  /\ ret.val.items.features.items[2] = Feature(Point2(1, 1), JObject([name |-> "bar", foo |-> 4]))

(***************************************************************************)
(* C20: GeometryCollection(count, geometry) with count >= 1 is an object   *)
(* with "type" "GeometryCollection" and a "geometries" array of exactly    *)
(* count entries, entry i being geometry(i), the accessor being called     *)
(* once per index in ascending order; an entry that is itself a            *)
(* GeometryCollection is taken as it is, at any nesting depth.             *)
(***************************************************************************)
C20_GeometryCollectionMembers ==
  (Done("GeometryCollection") /\ arg.numGeometries >= 1) =>
    /\ Succeeded
    /\ ret.val.kind = "object"
    /\ DOMAIN ret.val.items = {"type", "geometries"}
    /\ ret.val.items.type = "GeometryCollection"
    /\ IsArray(ret.val.items.geometries)
    /\ Size(ret.val.items.geometries) = arg.numGeometries
    /\ \A i \in 1..arg.numGeometries : ret.val.items.geometries.items[i] = arg.geoms[i]
    /\ calls = [k \in 1..arg.numGeometries |-> Invoked("getGeometry", <<k - 1>>)]

C20_Witness ==
  /\ Done("GeometryCollection")
  /\ arg.numGeometries = 2
  /\ arg.geoms[1] = Point2(0, 1)
  /\ arg.geoms[2] = NestedCollection
  /\ ret.val.items.geometries.items[2].items.geometries.items[1].items.type = "GeometryCollection"
  /\ ret.val.items.geometries.items[2].items.geometries.items[1].items.geometries.items[1] = Point2(0, 0)
  /\ calls = <<Invoked("getGeometry", <<0>>), Invoked("getGeometry", <<1>>)>>

EnumeratorSpellings ==
  <<"Point", "MultiPoint", "LineString", "MultiLineString", "Polygon", "MultiPolygon",
    "GeometryCollection", "Feature", "FeatureCollection">>

CoordinateBuilders ==
  {"Point", "MultiPoint", "LineString", "MultiLineString", "Polygon", "MultiPolygon"}

C22_TypeAndCoordinatesMembers ==
  /\ (pc = "done" /\ op \in CoordinateBuilders /\ Succeeded) =>
       /\ ret.val.kind = "object"
       /\ DOMAIN ret.val.items = {"type", "coordinates"}
       /\ ret.val.items.type = op
  /\ Done("TypeName") =>
       IF arg.type \in Type_Point..Type_FeatureCollection
       THEN /\ Succeeded
            /\ ret.val = EnumeratorSpellings[arg.type + 1]
            /\ \A other \in Type_Point..Type_FeatureCollection :
                 other # arg.type => TypeName(other).val # ret.val
       ELSE /\ ret.exc = "out_of_range"
            /\ ret.what = "Invalid geometry type given"

C22_Witness ==
  /\ Done("TypeName")
  /\ arg.type = Type_GeometryCollection
  /\ Succeeded
  /\ ret.val = "GeometryCollection"

(***************************************************************************)
(* C23: IsCcw does not need a closed input and is insensitive to closure:  *)
(* for every non-empty sequence s, IsCcw(s) equals IsCcw(s followed by a   *)
(* copy of s[0]); so a ring returned by LinearRingCoordinates evaluates    *)
(* the same over all count + 1 positions as over its first count           *)
(* positions.                                                              *)
(***************************************************************************)
C23_IsCcwInsensitiveToClosure ==
  /\ (Done("IsCcw") /\ Len(arg.pts) >= 1) =>
       /\ IsCcw(CloseRing(arg.coords)) = ret.val
       /\ Size(CloseRing(arg.coords)) = Size(arg.coords) + 1
  /\ (Done("LinearRingCoordinates") /\ Succeeded) =>
       IsCcw(ret.val) = IsCcw(JArray(SubSeq(ret.val.items, 1, arg.numPoints)))

C23_Witness ==
  /\ Done("IsCcw")
  /\ Len(arg.pts) = 3
  /\ ret.val = TRUE
  /\ arg.coords.items[3] # arg.coords.items[1]
  /\ IsCcw(CloseRing(arg.coords))

(***************************************************************************)
(* C24: for a ring of count >= 3 points whose shoelace sum is exactly      *)
(* zero, LinearRingCoordinates reverses the vertex order exactly when      *)
(* wantCcw is true and keeps it when wantCcw is false; so a zero-sum       *)
(* exterior ring (ring 0 of a polygon) comes out reversed and a zero-sum   *)
(* hole in input order, both closed and without error.                     *)
(***************************************************************************)
ZeroSumRing(dim, pts, wantCcw) ==
  Closed(IF wantCcw THEN Reversed(ExpectedSeq(dim, pts)) ELSE ExpectedSeq(dim, pts))

C24_ZeroSumReversedWhenCcwWanted ==
  /\ (Done("LinearRingCoordinates") /\ arg.numPoints >= 3
        /\ Shoelace(StoredXY(arg.pts)) = 0) =>
       /\ Succeeded
       /\ Size(ret.val) = arg.numPoints + 1
       /\ ret.val.items = ZeroSumRing(arg.dim, arg.pts, arg.ccw)
  /\ (Done("Polygon") /\ \A i \in 1..arg.numRings : Len(arg.rings[i]) >= 3) =>
       /\ Succeeded
       /\ \A i \in 1..arg.numRings :
            Shoelace(StoredXY(arg.rings[i])) = 0 =>
              ret.val.items.coordinates.items[i].items = ZeroSumRing(arg.dim, arg.rings[i], i = 1)

C24_Witness ==
  /\ Done("Polygon") /\ Succeeded
  /\ arg.numRings = 2
  /\ Shoelace(StoredXY(arg.rings[1])) = 0
  /\ Shoelace(StoredXY(arg.rings[2])) = 0
  /\ LET out == ret.val.items.coordinates.items
     IN /\ out[1].items = Closed(Reversed(ExpectedSeq(arg.dim, arg.rings[1])))
        /\ out[1].items # Closed(ExpectedSeq(arg.dim, arg.rings[1]))
        /\ out[2].items = Closed(ExpectedSeq(arg.dim, arg.rings[2]))
        /\ out[2].items # Closed(Reversed(ExpectedSeq(arg.dim, arg.rings[2])))

(***************************************************************************)
(* C25: reversing a sequence negates its shoelace sum: for every sequence  *)
(* s of 2D points sum(reverse(s)) = -sum(s); so for a non-zero sum         *)
(* IsCcw(reverse(s)) = ~IsCcw(s), and for a zero sum both are false;       *)
(* hence one conditional reversal, with no test after it, gives a          *)
(* non-zero-sum ring the orientation that was asked for.                   *)
(***************************************************************************)
C25_ReversalNegatesSum ==
  Done("IsCcw") =>
    LET s == arg.coords
        rev == SwapLoop(0, s)
    IN /\ rev.items = Reversed(s.items)
       /\ CwEdgeSum(rev) = 0 - CwEdgeSum(s)
       /\ CwEdgeSum(s) # 0 =>
            /\ IsCcw(rev) = ~ret.val
            /\ \A ccw \in BOOLEAN :
                 IsCcw(IF NeedsReverse(ret.val, ccw) THEN rev ELSE s) = ccw
       /\ CwEdgeSum(s) = 0 => (~ret.val /\ ~IsCcw(rev))

C25_Witness ==
  /\ Done("IsCcw")
  /\ Len(arg.pts) = 4
  /\ CwEdgeSum(arg.coords) = 2
  /\ CwEdgeSum(SwapLoop(0, arg.coords)) = 0 - 2
  /\ ~ret.val
  /\ IsCcw(SwapLoop(0, arg.coords))

(***************************************************************************)
(* C26: LinearRingCoordinates never detects or removes an already closed   *)
(* input: when the accessor's first and last points are equal the output   *)
(* still has count + 1 positions and its last two positions are equal,     *)
(* whether or not the ring was reversed; no input vertex is dropped or     *)
(* merged.                                                                 *)
(***************************************************************************)
C26_ClosedInputIsClosedAgain ==
  (Done("LinearRingCoordinates") /\ arg.numPoints >= 3
     /\ arg.pts[1] = arg.pts[arg.numPoints]) =>
    LET raw == ExpectedSeq(arg.dim, arg.pts)
        kept == SubSeq(ret.val.items, 1, arg.numPoints)
    IN /\ Succeeded
       /\ Size(ret.val) = arg.numPoints + 1
       /\ ret.val.items[arg.numPoints] = ret.val.items[arg.numPoints + 1]
       /\ kept \in {raw, Reversed(raw)}

C26_Witness ==
  /\ Done("LinearRingCoordinates") /\ Succeeded
  /\ arg.numPoints = 4 /\ arg.ccw
  /\ arg.pts[1] = arg.pts[4]
  /\ arg.pts[2] # arg.pts[3]
  /\ ret.val.items[1] = Expected(arg.dim, arg.pts[4])
  /\ ret.val.items[2] = Expected(arg.dim, arg.pts[3])
  /\ ret.val.items[2] # ret.val.items[3]
  /\ ret.val.items[4] = ret.val.items[5]
  /\ Size(ret.val) = 5

====
